---------------------------- MODULE Spec2Model ----------------------------
(***************************************************************************)
(* A model of the startracker crate: the frame buffer of cameraframe.rs,   *)
(* the SER container reader of serfile.rs, the frame statistics of         *)
(* framestats.rs, the star finder of starfinder.rs and the k-d tree of     *)
(* kdtree.rs.                                                              *)
(*                                                                         *)
(* Machine integers.  A usize of the crate is modelled as a word of        *)
(* UsizeBits bits.  An arithmetic overflow panics in a build with overflow *)
(* checks ("debug") and wraps in a build without ("release"); the variable *)
(* build is the profile the crate was compiled with.  A `panic` (overflow, *)
(* a slice index out of range, a failed assertion of the standard library) *)
(* is an outcome of its own, distinct from a returned Err.                 *)
(***************************************************************************)
EXTENDS Integers, Sequences, FiniteSets, TLC

VARIABLES
    build,   \* "debug" | "release": the profile the crate is compiled with
    frame,   \* the CameraFrameMono<T> under test, or NoFrame
    fres,    \* the outcome of the last access to frame
    nwrites, \* the number of indexed writes made to frame
    file,    \* the file SERFile::new is given: its kind and its bytes
    ser,     \* the outcome of SERFile::new on file, or NoSer
    stats,   \* the outcome of FrameStats::new on frame, or NoStats
    star,    \* the call of find_stars: its arguments, locals and position
    kd       \* the KdTree under test: its points, the tree and the last query

vars == <<build, frame, fres, nwrites, file, ser, stats, star, kd>>
frameVars == <<frame, fres, nwrites>>
serVars == <<file, ser>>

(***************************************************************************)
(* Bounds of the model.                                                    *)
(***************************************************************************)
\* width of a usize in bits (the crate runs on 64-bit targets; scaled down)
UsizeBits == 12
\* rows and cols of the frames under test range over 0..MaxDim
MaxDim == 2
\* at most MaxWrites indexed writes are made to a frame
MaxWrites == 2

UsizeMod == 2 ^ UsizeBits
UsizeMax == UsizeMod - 1
IsizeMax == 2 ^ (UsizeBits - 1) - 1

Builds == {"debug", "release"}

(***************************************************************************)
(* usize arithmetic: the wrapped value, and whether the operation          *)
(* overflows (a panic under "debug").                                      *)
(***************************************************************************)
WrapMul(a, b) == (a * b) % UsizeMod
MulOverflows(a, b) == a * b > UsizeMax
WrapAdd(a, b) == (a + b) % UsizeMod
AddOverflows(a, b) == a + b > UsizeMax

(***************************************************************************)
(* cameraframe.rs: PixelOrder, CameraFrameMono<T>.                         *)
(***************************************************************************)
PixelOrder == {"RowMajor", "ColMajor"}

NoFrame == [rows |-> 0, cols |-> 0, bit_depth |-> 0, pixel_order |-> "none",
            rawdata |-> <<>>, time |-> 0]

\* CameraFrameMono { rows, cols, bit_depth, rawdata, pixel_order, time }
CameraFrameMono(rows, cols, bit_depth, pixel_order, time, rawdata) ==
    [rows |-> rows, cols |-> cols, bit_depth |-> bit_depth,
     pixel_order |-> pixel_order, rawdata |-> rawdata, time |-> time]

\* vec![num::zero(); rows*cols]
ZeroVec(n) == [k \in 1..n |-> 0]

\* CameraFrameMono::zeros(rows, cols, bit_depth), built at system time now
ZerosFrame(rows, cols, bit_depth, now) ==
    CameraFrameMono(rows, cols, bit_depth, "ColMajor", now,
                    ZeroVec(WrapMul(rows, cols)))

\* CameraFrameMono::new(rows, cols, bit_depth, pixel_order, time, data):
\* data.to_vec(), whatever its length
NewFrame(rows, cols, bit_depth, pixel_order, time, data) ==
    CameraFrameMono(rows, cols, bit_depth, pixel_order, time, data)

\* CameraFrameTraits::pixel_format of a CameraFrameMono
PixelFormatOf(f) == "MONO"

(***************************************************************************)
(* Outcomes of an access.  kind: "ok" (a reference to a sample), "err"     *)
(* (Err(IndexOutOfBounds(off))), "panic".  off is the linear offset the    *)
(* access resolved to; val the sample read or written.                     *)
(***************************************************************************)
NoRes == [op |-> "none", a |-> 0, b |-> 0, kind |-> "none", off |-> 0, val |-> 0]

Outcome(op, a, b, kind, off, val) ==
    [op |-> op, a |-> a, b |-> b, kind |-> kind, off |-> off, val |-> val]

\* &self.as_slice()[index]: a sample, or the slice-index panic
SliceGet(op, a, b, f, index) ==
    IF index < Len(f.rawdata)
    THEN Outcome(op, a, b, "ok", index, f.rawdata[index + 1])
    ELSE Outcome(op, a, b, "panic", index, 0)

\* impl Get<usize, T>: at(index)
AtFlat(f, bld, index) ==
    IF MulOverflows(f.rows, f.cols) /\ bld = "debug"
    THEN Outcome("at1", index, 0, "panic", 0, 0)
    ELSE IF index > WrapMul(f.rows, f.cols)
         THEN Outcome("at1", index, 0, "err", index, 0)
         ELSE SliceGet("at1", index, 0, f, index)

\* the linear offset of (r, c): c*rows + r under ColMajor, r*cols + c under
\* RowMajor, in usize arithmetic
LinearIndex(f, r, c) ==
    IF f.pixel_order = "ColMajor"
    THEN WrapAdd(WrapMul(c, f.rows), r)
    ELSE WrapAdd(WrapMul(r, f.cols), c)

LinearIndexOverflows(f, r, c) ==
    IF f.pixel_order = "ColMajor"
    THEN MulOverflows(c, f.rows) \/ AddOverflows(WrapMul(c, f.rows), r)
    ELSE MulOverflows(r, f.cols) \/ AddOverflows(WrapMul(r, f.cols), c)

\* impl Get<(usize,usize), T>: at((r, c)).  The index is computed first,
\* the bounds are checked second.
AtRC(f, bld, r, c) ==
    IF LinearIndexOverflows(f, r, c) /\ bld = "debug"
    THEN Outcome("at2", r, c, "panic", 0, 0)
    ELSE IF r >= f.rows \/ c >= f.cols
         THEN Outcome("at2", r, c, "err", LinearIndex(f, r, c), 0)
         ELSE SliceGet("at2", r, c, f, LinearIndex(f, r, c))

\* IndexOffset with the two pixel orders' formulas exchanged
IndexOffsetSwapped(f, r, c) ==
    IF f.pixel_order = "ColMajor"
    THEN WrapAdd(WrapMul(r, f.cols), c)
    ELSE WrapAdd(WrapMul(c, f.rows), r)

\* the offset the raw operator frame[(r, c)] resolves to
IndexOffset(f, r, c) ==
    IF f.pixel_order = "ColMajor"
    THEN WrapAdd(WrapMul(c, f.rows), r)
    ELSE WrapAdd(WrapMul(r, f.cols), c)

\* impl Index<(usize,usize)>: frame[(r, c)], no bounds validation
IndexRC(f, bld, r, c) ==
    IF LinearIndexOverflows(f, r, c) /\ bld = "debug"
    THEN Outcome("index2", r, c, "panic", 0, 0)
    ELSE SliceGet("index2", r, c, f, IndexOffset(f, r, c))

\* the offset the raw operator frame[(r, c)] = v resolves to
IndexMutOffset(f, r, c) ==
    IF f.pixel_order = "ColMajor"
    THEN WrapAdd(WrapMul(c, f.rows), r)
    ELSE WrapAdd(WrapMul(r, f.cols), c)

\* impl IndexMut<(usize,usize)>: the place frame[(r, c)], no bounds validation
IndexMutRC(f, bld, r, c) ==
    IF LinearIndexOverflows(f, r, c) /\ bld = "debug"
    THEN Outcome("set2", r, c, "panic", 0, 0)
    ELSE SliceGet("set2", r, c, f, IndexMutOffset(f, r, c))

\* impl IndexMut<usize>: the place frame[i]
IndexMutFlat(f, i) == SliceGet("set1", i, 0, f, i)

\* impl Index<usize>: frame[i]
IndexFlat(f, i) == SliceGet("index1", i, 0, f, i)

\* rawdata with the sample at offset off replaced by v
StoreAt(f, off, v) == [f EXCEPT !.rawdata[off + 1] = v]

(***************************************************************************)
(* Inputs.                                                                 *)
(***************************************************************************)
Dims == 0..MaxDim
BitDepths == {16}
Times == {0}
\* a caller's data slice of n samples: sample k holds 10 + k
DataSlice(n) == [k \in 1..n |-> 10 + k]
\* the lengths a caller passes for a rows x cols frame: one short, exact, one
\* over
DataLens(rows, cols) == {n \in 0..(MaxDim * MaxDim + 1) :
                            n + 1 >= rows * cols /\ n <= rows * cols + 1}
\* indices around a limit n: the first ones, the last valid one, the limit,
\* one past it, and the largest usize
NearLimit(n) == {k \in {0, 1, n - 1, n, n + 1} : k >= 0} \cup {UsizeMax}
\* the flat indices and the coordinates tried on frame f
FlatIndices(f) == NearLimit(f.rows * f.cols)
RowCoords(f) == NearLimit(f.rows)
ColCoords(f) == NearLimit(f.cols)
WriteVals == {7}

\* no file is given and nothing is parsed while the frame buffer is exercised
NoFile == [kind |-> "none", bytes |-> <<>>]
NoError == [tag |-> "none", v |-> 0]
NoContainer == [color_id |-> "none"]
NoSer == [kind |-> "none", err |-> NoError, read |-> 0, container |-> NoContainer]
NoStats == [kind |-> "none"]
NoStar == [pc |-> "none"]
NoKd == [pc |-> "none"]

(***************************************************************************)
(* The frame buffer as a state machine.  One frame is constructed; then it *)
(* is read and written.  at() returns a reference borrowed from the frame: *)
(* Release is the caller letting go of the last outcome before its next    *)
(* access.                                                                 *)
(***************************************************************************)
InitFrame ==
    /\ build \in Builds
    /\ frame = NoFrame
    /\ fres = NoRes
    /\ nwrites = 0
    /\ stats = NoStats
    /\ star = NoStar
    /\ kd = NoKd
    /\ file = NoFile
    /\ ser = NoSer

Zeros(rows, cols, bit_depth) ==
    /\ frame = NoFrame
    /\ \E now \in Times : frame' = ZerosFrame(rows, cols, bit_depth, now)
    /\ UNCHANGED <<build, fres, nwrites, serVars, stats, star, kd>>

New(rows, cols, bit_depth, pixel_order, time, data) ==
    /\ frame = NoFrame
    /\ frame' = NewFrame(rows, cols, bit_depth, pixel_order, time, data)
    /\ UNCHANGED <<build, fres, nwrites, serVars, stats, star, kd>>

Ready == frame # NoFrame /\ fres = NoRes

At1(index) ==
    /\ Ready
    /\ fres' = AtFlat(frame, build, index)
    /\ UNCHANGED <<build, frame, nwrites, serVars, stats, star, kd>>

At2(r, c) ==
    /\ Ready
    /\ fres' = AtRC(frame, build, r, c)
    /\ UNCHANGED <<build, frame, nwrites, serVars, stats, star, kd>>

Index1(i) ==
    /\ Ready
    /\ fres' = IndexFlat(frame, i)
    /\ UNCHANGED <<build, frame, nwrites, serVars, stats, star, kd>>

Index2(r, c) ==
    /\ Ready
    /\ fres' = IndexRC(frame, build, r, c)
    /\ UNCHANGED <<build, frame, nwrites, serVars, stats, star, kd>>

\* the outcome o of resolving the place, then the store of v through it
Store(o, v) ==
    /\ fres' = [o EXCEPT !.val = IF o.kind = "ok" THEN v ELSE 0]
    /\ frame' = IF o.kind = "ok" THEN StoreAt(frame, o.off, v) ELSE frame
    /\ nwrites' = nwrites + 1

\* impl IndexMut<usize>: frame[i] = v
IndexMut1(i, v) ==
    /\ Ready
    /\ nwrites < MaxWrites
    /\ Store(IndexMutFlat(frame, i), v)
    /\ UNCHANGED <<build, serVars, stats, star, kd>>

\* impl IndexMut<(usize,usize)>: frame[(r, c)] = v
IndexMut2(r, c, v) ==
    /\ Ready
    /\ nwrites < MaxWrites
    /\ Store(IndexMutRC(frame, build, r, c), v)
    /\ UNCHANGED <<build, serVars, stats, star, kd>>

Release ==
    /\ fres # NoRes
    /\ fres' = NoRes
    /\ UNCHANGED <<build, frame, nwrites, serVars, stats, star, kd>>

NextFrame ==
    \/ \E rows \in Dims, cols \in Dims, bd \in BitDepths : Zeros(rows, cols, bd)
    \/ \E rows \in Dims, cols \in Dims, bd \in BitDepths, po \in PixelOrder,
          t \in Times :
            \E n \in DataLens(rows, cols) :
                New(rows, cols, bd, po, t, DataSlice(n))
    \/ \E i \in FlatIndices(frame) : At1(i)
    \/ \E r \in RowCoords(frame), c \in ColCoords(frame) : At2(r, c)
    \/ \E i \in FlatIndices(frame) : Index1(i)
    \/ \E r \in RowCoords(frame), c \in ColCoords(frame) : Index2(r, c)
    \/ \E i \in FlatIndices(frame), v \in WriteVals : IndexMut1(i, v)
    \/ \E r \in RowCoords(frame), c \in ColCoords(frame), v \in WriteVals :
          IndexMut2(r, c, v)
    \/ Release

SpecFrame == InitFrame /\ [][NextFrame]_vars


(***************************************************************************)
(* serfile.rs: byte-level helpers.  A byte is a number in 0..255; a slice  *)
(* b[lo..hi] of the source is Slice(b, lo, hi).                            *)
(***************************************************************************)
Slice(b, lo, hi) == SubSeq(b, lo + 1, hi)

RECURSIVE LeValue(_)
\* the little-endian value of a byte string
LeValue(b) == IF b = <<>> THEN 0 ELSE Head(b) + 256 * LeValue(Tail(b))

\* u32::from_le_bytes(b), b of 4 bytes
u32_from_le_bytes(b) == LeValue(b)

\* u64::from_le_bytes(b), b of 8 bytes
u64_from_le_bytes(b) == LeValue(b)

IsContinuation(x) == x \in 128..191

RECURSIVE Utf8Valid(_)
\* std::str::from_utf8(b).is_ok(): b is well-formed UTF-8
Utf8Valid(b) ==
    IF b = <<>> THEN TRUE
    ELSE LET n == Len(b)
             x == b[1]
             After(k) == Utf8Valid(SubSeq(b, k + 1, n))
         IN  IF x < 128 THEN After(1)
             ELSE IF x \in 194..223
                  THEN n >= 2 /\ IsContinuation(b[2]) /\ After(2)
             ELSE IF x = 224
                  THEN n >= 3 /\ b[2] \in 160..191 /\ IsContinuation(b[3]) /\ After(3)
             ELSE IF x \in (225..236) \cup (238..239)
                  THEN n >= 3 /\ IsContinuation(b[2]) /\ IsContinuation(b[3]) /\ After(3)
             ELSE IF x = 237
                  THEN n >= 3 /\ b[2] \in 128..159 /\ IsContinuation(b[3]) /\ After(3)
             ELSE IF x = 240
                  THEN n >= 4 /\ b[2] \in 144..191 /\ IsContinuation(b[3])
                       /\ IsContinuation(b[4]) /\ After(4)
             ELSE IF x \in 241..243
                  THEN n >= 4 /\ IsContinuation(b[2]) /\ IsContinuation(b[3])
                       /\ IsContinuation(b[4]) /\ After(4)
             ELSE IF x = 244
                  THEN n >= 4 /\ b[2] \in 128..143 /\ IsContinuation(b[3])
                       /\ IsContinuation(b[4]) /\ After(4)
             ELSE FALSE

\* the UTF-8 encodings of the characters with char::is_whitespace: U+0009 to
\* U+000D, U+0020, U+0085, U+00A0, U+1680, U+2000 to U+200A, U+2028, U+2029,
\* U+202F, U+205F, U+3000
WhiteSpace ==
    {<<x>> : x \in (9..13) \cup {32}}
    \cup {<<194, 133>>, <<194, 160>>, <<225, 154, 128>>}
    \cup {<<226, 128, x>> : x \in (128..138) \cup {168, 169, 175}}
    \cup {<<226, 129, 159>>, <<227, 128, 128>>}

StartsWith(b, w) == Len(b) >= Len(w) /\ SubSeq(b, 1, Len(w)) = w
EndsWith(b, w) == Len(b) >= Len(w) /\ SubSeq(b, Len(b) - Len(w) + 1, Len(b)) = w

RECURSIVE TrimStart(_)
TrimStart(b) ==
    IF \E w \in WhiteSpace : StartsWith(b, w)
    THEN LET w == CHOOSE w \in WhiteSpace : StartsWith(b, w)
         IN  TrimStart(SubSeq(b, Len(w) + 1, Len(b)))
    ELSE b

RECURSIVE TrimEnd(_)
TrimEnd(b) ==
    IF \E w \in WhiteSpace : EndsWith(b, w)
    THEN LET w == CHOOSE w \in WhiteSpace : EndsWith(b, w)
         IN  TrimEnd(SubSeq(b, 1, Len(b) - Len(w)))
    ELSE b

\* str::trim() of a well-formed UTF-8 string: leading and trailing white
\* space removed
Trim(b) == TrimEnd(TrimStart(b))

(***************************************************************************)
(* serfile.rs: SERFile::new.                                               *)
(***************************************************************************)
HEADER_LEN == 178
\* "LUCAM-RECORDER"
HEADER_STRING == <<76, 85, 67, 65, 77, 45, 82, 69, 67, 79, 82, 68, 69, 82>>

\* impl TryFrom<u32> for ColorID: the mapped ids
ColorID ==
    [x \in {0, 8, 9, 10, 11, 16, 17, 18, 19, 100, 101} |->
        CASE x = 0 -> "Mono"
          [] x = 8 -> "BayerRGGB"
          [] x = 9 -> "BayerGRBG"
          [] x = 10 -> "BayerBGRG"
          [] x = 11 -> "BayerBGGR"
          [] x = 16 -> "BayerCYYM"
          [] x = 17 -> "BayerYCMY"
          [] x = 18 -> "BayerYMCY"
          [] x = 19 -> "BayerMYYC"
          [] x = 100 -> "RGB"
          [] x = 101 -> "BGR"]

\* impl TryFrom<u32> for Endian: the mapped flags
Endian == [x \in {0, 1} |-> IF x = 0 THEN "Little" ELSE "Big"]

SerErr(tag, v, read) ==
    [kind |-> "err", err |-> [tag |-> tag, v |-> v], read |-> read,
     container |-> NoContainer]

SerPanic(read) ==
    [kind |-> "panic", err |-> NoError, read |-> read, container |-> NoContainer]

SerOk(container, read) ==
    [kind |-> "ok", err |-> NoError, read |-> read, container |-> container]

\* a tick as a count of 100-nanosecond units
FrameTimeHundredNs(val) == val * 100

\* the microseconds of a tick alone
FrameTimeMicroseconds(val) == (val \div 10) * 1000

\* the time of a frame from its tick value: epoch + microseconds(val / 10)
\* + nanoseconds((val % 100) * 10), in nanoseconds since the epoch
\* 0001-01-01T00:00:00
FrameTimeOf(val) ==
    LET usecs == val \div 10
        nsecs == (val % 100) * 10
    IN  usecs * 1000 + nsecs

\* time_buf.chunks_exact(8).map(..).collect()
FrameTimes(time_buf) ==
    [i \in 1..(Len(time_buf) \div 8) |->
        FrameTimeOf(u64_from_le_bytes(Slice(time_buf, 8 * (i - 1), 8 * i)))]

\* the samples read high byte first
U16SliceBigEndian(x) == [k \in 1..(Len(x) \div 2) |-> 256 * x[2 * k - 1] + x[2 * k]]

\* slice::from_raw_parts(x.as_ptr() as *const u16, x.len() / 2) on a
\* little-endian host: x.len() / 2 samples, each of two bytes
U16Slice(x) == [k \in 1..(Len(x) \div 2) |-> x[2 * k - 1] + 256 * x[2 * k]]

\* chunk idx (from 0) of frames_buf.chunks_exact(frame_bytes)
Chunk(frames_buf, frame_bytes, idx) ==
    Slice(frames_buf, idx * frame_bytes, (idx + 1) * frame_bytes)

\* the u16 view of chunk idx starts at an odd address (frames_buf itself is
\* allocated at an even one): slice::from_raw_parts is then undefined
\* behaviour
Misaligned(frame_bytes, idx) == (idx * frame_bytes) % 2 = 1

\* what a build makes of the misaligned view: the samples are read all the
\* same, or the process is aborted (the precondition check of from_raw_parts)
UBOutcomes == {"reads", "aborts"}

\* a frame whose samples are read in the byte order the header declares
Mono16FrameByEndian(h, time, x) ==
    [variant |-> "Mono16",
     frame |-> NewFrame(h.width, h.height, h.bit_depth, "ColMajor", time,
                        IF h.endian = "Big" THEN U16SliceBigEndian(x)
                        ELSE [k \in 1..(Len(x) \div 2) |-> x[2 * k - 1] + 256 * x[2 * k]])]

\* CameraFrame::Mono16(CameraFrameMono16::new(width, height, bit_depth,
\* PixelOrder::ColMajor, &frame_times[idx], <u16 view of chunk idx>))
Mono16Frame(h, time, x) ==
    [variant |-> "Mono16",
     frame |-> NewFrame(h.width, h.height, h.bit_depth, "ColMajor", time,
                        U16Slice(x))]

\* CameraFrameTraits for CameraFrame: dispatch to the active buffer
CameraFrame_pixel_format(cf) == PixelFormatOf(cf.frame)
CameraFrame_pixel_order(cf) == cf.frame.pixel_order

\* pixel_layers: 3 for RGB and BGR, else 1
PixelLayers(color_id) == IF color_id \in {"RGB", "BGR"} THEN 3 ELSE 1

\* byte_depth = (bit_depth + 7) / 8
ByteDepth(bit_depth) == (bit_depth + 7) \div 8

\* SERFile::new from the payload on: h holds the decoded header fields
ParsePayload(bytes, bld, ub, h) ==
    LET pixel_layers == PixelLayers(h.color_id)
        byte_depth == ByteDepth(h.bit_depth)
        wh == WrapMul(h.width, h.height)
        whd == WrapMul(wh, byte_depth)
        frame_bytes == WrapMul(whd, pixel_layers)
        frame_bytes_overflows ==
            \/ MulOverflows(h.width, h.height)
            \/ MulOverflows(wh, byte_depth)
            \/ MulOverflows(whd, pixel_layers)
        frames_len == WrapMul(frame_bytes, h.frame_count)
        time_len == WrapMul(h.frame_count, 8)
        have == Len(bytes)
    IN
    IF bld = "debug" /\ (frame_bytes_overflows
                         \/ MulOverflows(frame_bytes, h.frame_count))
    THEN SerPanic(HEADER_LEN)
    \* vec![0u8; n] panics ("capacity overflow") for n > isize::MAX
    ELSE IF frames_len > IsizeMax THEN SerPanic(HEADER_LEN)
    ELSE IF have < HEADER_LEN + frames_len THEN SerErr("UnexpectedEof", 0, have)
    ELSE IF bld = "debug" /\ MulOverflows(h.frame_count, 8)
    THEN SerPanic(HEADER_LEN + frames_len)
    ELSE IF time_len > IsizeMax THEN SerPanic(HEADER_LEN + frames_len)
    ELSE IF have < HEADER_LEN + frames_len + time_len
    THEN SerErr("UnexpectedEof", 0, have)
    ELSE
    LET frames_buf == Slice(bytes, HEADER_LEN, HEADER_LEN + frames_len)
        time_buf == Slice(bytes, HEADER_LEN + frames_len,
                          HEADER_LEN + frames_len + time_len)
        frame_times == FrameTimes(time_buf)
        read == HEADER_LEN + frames_len + time_len
    IN
    \* chunks_exact(0) panics: "chunk size must be non-zero"
    IF frame_bytes = 0 THEN SerPanic(read)
    ELSE
    LET nchunks == frames_len \div frame_bytes IN
    IF nchunks > Len(frame_times) THEN SerPanic(read)
    ELSE IF ub = "aborts" /\ \E idx \in 0..(nchunks - 1) : Misaligned(frame_bytes, idx)
    THEN SerPanic(read)
    ELSE SerOk([color_id |-> h.color_id,
                endian |-> h.endian,
                width |-> h.width,
                height |-> h.height,
                bit_depth |-> h.bit_depth,
                frame_count |-> h.frame_count,
                instrument |-> Trim(h.instrument),
                observer |-> Trim(h.observer),
                telescope |-> Trim(h.telescope),
                frames |-> [i \in 1..nchunks |->
                    Mono16Frame(h, frame_times[i],
                                Chunk(frames_buf, frame_bytes, i - 1))]],
               read)

\* SERFile::new from the 178 header bytes on
ParseHeader(bytes, bld, ub) ==
    LET header == Slice(bytes, 0, HEADER_LEN)
        color == u32_from_le_bytes(Slice(header, 18, 22))
        endian == u32_from_le_bytes(Slice(header, 22, 26))
        observer == Slice(header, 42, 82)
        instrument == Slice(header, 82, 122)
        telescope == Slice(header, 122, 152)
    IN
    IF ~Utf8Valid(Slice(header, 0, Len(HEADER_STRING)))
    THEN SerErr("Utf8Error", 0, HEADER_LEN)
    ELSE IF Slice(header, 0, Len(HEADER_STRING)) # HEADER_STRING
    THEN SerErr("InvalidHeader", 0, HEADER_LEN)
    ELSE IF color \notin DOMAIN ColorID
    THEN SerErr("InvalidColorID", color, HEADER_LEN)
    ELSE IF endian \notin DOMAIN Endian
    THEN SerErr("InvalidEndian", endian, HEADER_LEN)
    ELSE IF ~Utf8Valid(observer) \/ ~Utf8Valid(instrument) \/ ~Utf8Valid(telescope)
    THEN SerErr("Utf8Error", 0, HEADER_LEN)
    ELSE ParsePayload(bytes, bld, ub,
            [color_id |-> ColorID[color],
             endian |-> Endian[endian],
             width |-> u32_from_le_bytes(Slice(header, 26, 30)),
             height |-> u32_from_le_bytes(Slice(header, 30, 34)),
             bit_depth |-> u32_from_le_bytes(Slice(header, 34, 38)),
             frame_count |-> u32_from_le_bytes(Slice(header, 38, 42)),
             observer |-> observer,
             instrument |-> instrument,
             telescope |-> telescope])

\* SERFile::new(fname) on the file f that fname names
SERFile_new(f, bld, ub) ==
    IF f.kind = "absent" THEN SerErr("FileDoesNotExist", 0, 0)
    ELSE IF f.kind = "unreadable" THEN SerErr("Io", 0, 0)
    ELSE IF Len(f.bytes) < HEADER_LEN THEN SerErr("UnexpectedEof", 0, Len(f.bytes))
    ELSE ParseHeader(f.bytes, bld, ub)


(***************************************************************************)
(* Inputs of SERFile::new: files laid out as the SER format lays them out  *)
(* (14 bytes of magic, LuID, ColorID, LittleEndian, ImageWidth,            *)
(* ImageHeight, PixelDepthPerPlane, FrameCount, Observer, Instrument,      *)
(* Telescope, DateTime, DateTimeUTC; then the payload; then one 8-byte     *)
(* tick per frame), cut at several lengths.                                *)
(***************************************************************************)
MaxSerDim == 2
MaxFrames == 2

LE32(v) == <<v % 256, (v \div 256) % 256, (v \div 65536) % 256, v \div 16777216>>
LE64(v) == LE32(v) \o <<0, 0, 0, 0>>

Fill(n, x) == [k \in 1..n |-> x]

\* a text field of n bytes
TextKinds == {"spaces", "nuls", "padded", "invalid", "full"}
Text(kind, n) ==
    CASE kind = "spaces" -> <<65, 98>> \o Fill(n - 2, 32)
      [] kind = "nuls" -> <<65, 98>> \o Fill(n - 2, 0)
      [] kind = "padded" -> <<32, 9, 65, 32, 98, 194, 160>> \o Fill(n - 7, 32)
      [] kind = "invalid" -> <<65, 255>> \o Fill(n - 2, 32)
      [] kind = "full" -> Fill(n - 1, 65) \o <<32>>

Magics ==
    [good |-> HEADER_STRING,
     other |-> <<76, 85, 67, 65, 77, 45, 82, 69, 67, 79, 82, 68, 69, 83>>,
     lower |-> <<108, 117, 99, 97, 109, 45, 114, 101, 99, 111, 114, 100, 101, 114>>,
     invalid |-> <<76, 85, 67, 65, 77, 45, 82, 69, 67, 79, 82, 68, 69, 255>>,
     zeros |-> Fill(14, 0)]

Header(magic, color, endian, w, h, bd, fc, texts) ==
    magic \o LE32(0) \o LE32(color) \o LE32(endian) \o LE32(w) \o LE32(h)
          \o LE32(bd) \o LE32(fc)
          \o Text(texts[1], 40) \o Text(texts[2], 40) \o Text(texts[3], 40)
          \o Fill(16, 0)

Payload(n) == [k \in 1..n |-> (37 * k + 11) % 256]

RECURSIVE TickTable(_)
TickTable(ticks) ==
    IF ticks = <<>> THEN <<>> ELSE LE64(Head(ticks)) \o TickTable(Tail(ticks))

DefaultTicks(fc) == [i \in 1..fc |-> 1000 * i + 234]

Regular(bytes) == [kind |-> "file", bytes |-> bytes]

\* the whole file and the file cut short: by one byte, inside the tick
\* table, at the end of the payload, inside the payload, after the header
Cuts(bytes, payload_len) ==
    {SubSeq(bytes, 1, n) :
        n \in {m \in {Len(bytes), Len(bytes) - 1, HEADER_LEN + payload_len,
                      HEADER_LEN + payload_len - 1, HEADER_LEN} :
               m >= HEADER_LEN /\ m <= Len(bytes)}}

PlainTexts == <<"spaces", "spaces", "spaces">>

\* faults of the header
HeaderFiles ==
    {Regular(Header(Magics[m], color, endian, 1, 1, 16, 1, texts)
             \o Payload(2) \o TickTable(DefaultTicks(1))) :
        m \in DOMAIN Magics,
        color \in {0, 5, 100},
        endian \in {0, 1, 2},
        texts \in {PlainTexts,
                   <<"nuls", "padded", "spaces">>,
                   <<"spaces", "spaces", "full">>,
                   <<"invalid", "spaces", "spaces">>,
                   <<"spaces", "invalid", "spaces">>,
                   <<"spaces", "spaces", "invalid">>}}

SerBitDepths == {0, 8, 12, 16, 24}

DimsFile(color, endian, w, h, bd, fc) ==
    Header(HEADER_STRING, color, endian, w, h, bd, fc, PlainTexts)
        \o Payload(fc * w * h * ((bd + 7) \div 8) * (IF color >= 100 THEN 3 ELSE 1))
        \o TickTable(DefaultTicks(fc))

\* every colour id, mapped or not
ColorFiles ==
    {Regular(DimsFile(color, 0, 1, 1, 8, 1)) : color \in (0..20) \cup (99..102)}

\* dimensions, bit depths, layers and frame counts, zero included
DimsFiles(maxdim, maxframes) ==
    UNION {{Regular(b) :
              b \in Cuts(DimsFile(color, endian, w, h, bd, fc),
                         fc * w * h * ((bd + 7) \div 8)
                            * (IF color >= 100 THEN 3 ELSE 1))} :
        color \in {0, 100}, endian \in {0, 1}, w \in 0..maxdim, h \in 0..maxdim,
        bd \in SerBitDepths, fc \in 0..maxframes}

TickVals == {0, 1, 9, 10, 99, 100, 101, 12345}

\* tick tables
TickFiles(maxframes) ==
    UNION {{Regular(Header(HEADER_STRING, 0, 0, 1, 1, 16, fc, PlainTexts)
                    \o Payload(2 * fc) \o TickTable(ticks)) :
              ticks \in [1..fc -> TickVals]} :
        fc \in 1..maxframes}

MaxTick == 210

\* tick tables of two frames whose ticks differ by one, in both orders
AdjacentTickFiles(maxtick) ==
    {Regular(Header(HEADER_STRING, 0, 0, 1, 1, 16, 2, PlainTexts)
             \o Payload(4) \o TickTable(ticks)) :
        ticks \in UNION {{<<a, a + 1>>, <<a + 1, a>>} : a \in 0..(maxtick - 1)}}

\* the largest value of a 32-bit header field and the half of its range,
\* scaled to UsizeBits as a u32 is to a 64-bit usize
HugeDims == {2 ^ (UsizeBits \div 2 - 1), 2 ^ (UsizeBits \div 2) - 1}

\* headers that declare more than the file holds
HugeFiles ==
    {Regular(Header(HEADER_STRING, color, 0, w, h, bd, fc, PlainTexts)
             \o Fill(extra, 0)) :
        color \in {0, 100}, w \in HugeDims \cup {1}, h \in HugeDims,
        bd \in {8, 16, 32}, fc \in {1, 2, 2 ^ (UsizeBits \div 2) - 1},
        extra \in {0, 8, 16}}

OtherFiles ==
    {[kind |-> "absent", bytes |-> <<>>], [kind |-> "unreadable", bytes |-> <<>>],
     Regular(<<>>), Regular(HEADER_STRING),
     Regular(SubSeq(DimsFile(0, 0, 1, 1, 16, 1), 1, HEADER_LEN - 1))}

Files(maxdim, maxframes, maxtick) ==
    HeaderFiles \cup ColorFiles \cup DimsFiles(maxdim, maxframes)
        \cup TickFiles(maxframes) \cup AdjacentTickFiles(maxtick)
        \cup HugeFiles \cup OtherFiles

(***************************************************************************)
(* The reader as a state machine: one file, read once.                     *)
(***************************************************************************)
InitSER ==
    /\ build \in Builds
    /\ file \in Files(MaxSerDim, MaxFrames, MaxTick)
    /\ ser = NoSer
    /\ frame = NoFrame
    /\ fres = NoRes
    /\ nwrites = 0
    /\ stats = NoStats
    /\ star = NoStar
    /\ kd = NoKd

Parse(ub) ==
    /\ ser = NoSer
    /\ ser' = SERFile_new(file, build, ub)
    /\ UNCHANGED <<build, file, frameVars, stats, star, kd>>

NextSER == \E ub \in UBOutcomes : Parse(ub)

SpecSER == InitSER /\ [][NextSER]_vars


(***************************************************************************)
(* f64 values.  A finite f64 is modelled by the exact quotient n/d (d > 0) *)
(* of the integers it was computed from, a NaN by NaN; sqrt is kept        *)
(* symbolic.  The rounding of an f64 operation is not modelled.            *)
(***************************************************************************)
NaN == [kind |-> "NaN", n |-> 0, d |-> 1]
Ratio(n, d) == [kind |-> "num", n |-> n, d |-> d]

\* a as f64 / b as f64, for integers a and b >= 0: 0.0/0.0 is NaN
FDiv(a, b) ==
    IF b = 0
    THEN IF a = 0 THEN NaN ELSE [kind |-> "inf", n |-> a, d |-> 0]
    ELSE Ratio(a, b)

\* x.sqrt(): NaN for a NaN and for a negative number
FSqrt(x) ==
    IF x.kind = "num" /\ x.n >= 0 THEN [kind |-> "sqrt", n |-> x.n, d |-> x.d]
    ELSE IF x.kind = "inf" /\ x.n > 0 THEN x
    ELSE NaN

(***************************************************************************)
(* framestats.rs: FrameStats::new.                                         *)
(***************************************************************************)
\* i64::MAX and i64::MIN, the first values of min and max: greater and
\* smaller than every sample
I64Limit == [limit |-> TRUE, v |-> 0]
I64(v) == [limit |-> FALSE, v |-> v]

RECURSIVE Accumulate(_, _)
\* the for_each over the samples: min, max, sum and sumsq, from
\* i64::MAX, i64::MIN, 0 and 0
Accumulate(raw, acc) ==
    IF raw = <<>> THEN acc
    ELSE LET val == Head(raw)
         IN  Accumulate(Tail(raw),
                [sum |-> acc.sum + val,
                 sumsq |-> acc.sumsq + val * val,
                 min |-> IF acc.min.limit \/ val < acc.min.v THEN I64(val) ELSE acc.min,
                 max |-> IF acc.max.limit \/ val > acc.max.v THEN I64(val) ELSE acc.max])

Accumulators(raw) ==
    Accumulate(raw, [sum |-> 0, sumsq |-> 0, min |-> I64Limit, max |-> I64Limit])

RECURSIVE InsertAsc(_, _)
InsertAsc(sorted, v) ==
    IF sorted = <<>> THEN <<v>>
    ELSE IF v <= Head(sorted) THEN <<v>> \o sorted
    ELSE <<Head(sorted)>> \o InsertAsc(Tail(sorted), v)

RECURSIVE SortAsc(_)
\* values.sort_unstable(): the values in ascending order
SortAsc(values) ==
    IF values = <<>> THEN <<>>
    ELSE InsertAsc(SortAsc(Tail(values)), Head(values))

\* the lower middle of count values
MedianIndexLower(count) == IF count = 0 THEN 0 ELSE (count - 1) \div 2

\* count/2, the index of the median in the sorted values
MedianIndex(count) == count \div 2

\* mean = sum as f64 / count as f64
MeanOf(sum, count) == FDiv(sum, count)

\* (sumsq - count * mean * mean) / (count - 1), mean being sum/count:
\* (count*sumsq - sum*sum) / (count * (count - 1)); NaN where the mean is,
\* and 0.0/0.0 for one sample
VarianceOf(sum, sumsq, count) ==
    IF count = 0 THEN NaN
    ELSE IF count = 1 THEN FDiv(sumsq - sum * sum, 0)
    ELSE Ratio(count * sumsq - sum * sum, count * (count - 1))

StdDevOf(sum, sumsq, count) == FSqrt(VarianceOf(sum, sumsq, count))

FrameStats_new(f) ==
    LET raw == f.rawdata
        acc == Accumulators(raw)
        count == Len(raw)
        values == SortAsc(raw)
    IN  \* values[count/2] of no values: index out of bounds
        IF MedianIndex(count) >= Len(values) THEN [kind |-> "panic"]
        ELSE [kind |-> "ok",
              min |-> acc.min.v,
              max |-> acc.max.v,
              mean |-> MeanOf(acc.sum, count),
              median |-> values[MedianIndex(count) + 1],
              std_dev |-> StdDevOf(acc.sum, acc.sumsq, count)]

MaxSamples == 5
MaxSample == 5

\* the sample sequences of up to maxn samples of 0..maxv
SampleSeqs(maxn, maxv) == UNION {[1..n -> 0..maxv] : n \in 0..maxn}

\* frames of one row that hold them
StatsFrames(maxn, maxv) ==
    {NewFrame(1, Len(raw), 16, "RowMajor", 0, raw) : raw \in SampleSeqs(maxn, maxv)}

InitStats ==
    /\ build \in Builds
    /\ frame \in StatsFrames(MaxSamples, MaxSample)
    /\ fres = NoRes
    /\ nwrites = 0
    /\ file = NoFile
    /\ ser = NoSer
    /\ stats = NoStats
    /\ star = NoStar
    /\ kd = NoKd

Stats ==
    /\ stats = NoStats
    /\ stats' = FrameStats_new(frame)
    /\ UNCHANGED <<build, frameVars, serVars, star, kd>>

NextStats == Stats

SpecStats == InitStats /\ [][NextStats]_vars


(***************************************************************************)
(* starfinder.rs: find_stars(pix, rows, cols, options).  star holds the    *)
(* arguments and the locals of the call; pc is "call" before it, "pass"    *)
(* during the for_each over the pixels (idx is the next pixel), "done"     *)
(* after the return and "panic" after a panic.                             *)
(***************************************************************************)
\* FindStarsOptions::defaults(): threshold 2.5, minsize 2
FindStarsOptions_defaults == [threshold |-> [n |-> 5, d |-> 2], minsize |-> 2]

None == [some |-> FALSE, threshold |-> [n |-> 0, d |-> 1], minsize |-> 0]
Some(threshold, minsize) == [some |-> TRUE, threshold |-> threshold, minsize |-> minsize]

\* match options { None => FindStarsOptions::defaults(), Some(o) => o }
OptionsOf(options) ==
    IF options.some
    THEN [threshold |-> options.threshold, minsize |-> options.minsize]
    ELSE FindStarsOptions_defaults

RECURSIVE PixSum(_)
\* sum += v64
PixSum(pix) == IF pix = <<>> THEN 0 ELSE Head(pix) + PixSum(Tail(pix))

RECURSIVE PixSumSq(_)
\* sumsq += v64 * v64
PixSumSq(pix) == IF pix = <<>> THEN 0 ELSE Head(pix) * Head(pix) + PixSumSq(Tail(pix))

Sgn(x) == IF x > 0 THEN 1 ELSE IF x < 0 THEN -1 ELSE 0

\* the sign of (mean + threshold * std_dev) - k for an integer k, where
\* mean = sum/count, std_dev = sqrt(N/D), N = count*sumsq - sum*sum,
\* D = count*(count - 1), count >= 2 and threshold = t.n/t.d: the sign of
\* L*sqrt(N/D) - R with L = t.n*count and R = (k*count - sum)*t.d
SignAgainst(sum, sumsq, count, t, k) ==
    LET N == count * sumsq - sum * sum
        D == count * (count - 1)
        L == t.n * count
        R == (k * count - sum) * t.d
        P == IF N = 0 THEN 0 ELSE Sgn(L)
        Q == Sgn(R)
    IN  IF P # Q THEN (IF P > Q THEN 1 ELSE -1)
        ELSE IF P = 0 THEN 0
        ELSE IF P = 1 THEN Sgn(L * L * N - R * R * D)
        ELSE Sgn(R * R * D - L * L * N)

RECURSIVE PixMax(_)
PixMax(pix) ==
    IF pix = <<>> THEN 0
    ELSE LET m == PixMax(Tail(pix)) IN IF Head(pix) > m THEN Head(pix) ELSE m

\* an integer that mean + threshold * std_dev cannot exceed in magnitude
ThreshLimit(pix, t) ==
    (PixMax(pix) + 1) * ((IF t.n < 0 THEN -t.n ELSE t.n) \div t.d + 2)

\* thresh = (mean + options.threshold * std_dev) as i32: the truncation
\* toward zero; 0 where the sum is NaN (no pixel: mean is 0/0; one pixel:
\* std_dev is sqrt(0/0))
ThreshOf(pix, t) ==
    LET count == Len(pix)
        sum == PixSum(pix)
        sumsq == PixSumSq(pix)
        B == ThreshLimit(pix, t)
        S(k) == SignAgainst(sum, sumsq, count, t, k)
    IN  IF count <= 1 THEN 0
        ELSE IF S(0) >= 0
        THEN CHOOSE k \in 0..B : S(k) >= 0 /\ S(k + 1) < 0
        ELSE CHOOSE k \in (-B)..0 : S(k) <= 0 /\ S(k - 1) > 0

\* (n / cols, n % cols)
Coord(n, cols) == <<n \div cols, n % cols>>

\* the test of a neighbour, without the test of its label
ClaimableLabelled(st, n) == st.pix[n + 1] > st.thresh

\* mask[n] == -1 && v > thresh
Claimable(st, n) == st.mask[n + 1] = -1 /\ st.pix[n + 1] > st.thresh

Panicked(st) == [st EXCEPT !.pc = "panic"]

\* one of the four connectivity checks of pixel idx on its neighbour n:
\* pix[n] is read (a panic outside the slice); a neighbour that is not
\* labelled and is above the threshold takes the label of idx and joins its
\* segment
Link(st, idx, n) ==
    IF st.pc = "panic" THEN st
    ELSE IF n >= Len(st.pix) THEN Panicked(st)
    ELSE IF Claimable(st, n)
    THEN LET label == st.mask[idx + 1]
         IN  [st EXCEPT !.mask[n + 1] = label,
                        !.segments[label + 1] = Append(@, Coord(n, st.cols))]
    ELSE st

\* a pixel above the threshold starts a segment whatever its label
NewSegmentAlways(st, idx) == TRUE

\* mask[idx] == -1
NewSegmentNeeded(st, idx) == st.mask[idx + 1] = -1

\* a new segment of the pixel idx alone, labelled segment_count
StartSegment(st, idx) ==
    IF NewSegmentNeeded(st, idx)
    THEN [st EXCEPT !.mask[idx + 1] = st.segment_count,
                    !.segments = Append(@, <<Coord(idx, st.cols)>>),
                    !.segment_count = @ + 1]
    ELSE st

\* the pixel after the next
RightSkipped(idx, cols) == idx + 2

Right(idx, cols) == idx + 1

BelowLeft(idx, cols) == idx + cols - 1
Below(idx, cols) == idx + cols
BelowRightOff(idx, cols) == idx + cols
BelowRight(idx, cols) == idx + cols + 1

\* rows - 1 in usize: with no row it overflows, a panic in "debug", and
\* wraps to usize::MAX in "release"
LastRow(rows) == IF rows = 0 THEN UsizeMax ELSE rows - 1

\* the checks of the row below of pixel idx
LinkBelow(st, idx) ==
    LET current_col == idx % st.cols
        s1 == IF current_col > 0 THEN Link(st, idx, BelowLeft(idx, st.cols)) ELSE st
        s2 == Link(s1, idx, Below(idx, st.cols))
    IN  IF current_col + 1 < st.cols
        THEN Link(s2, idx, BelowRight(idx, st.cols))
        ELSE s2

\* v32 >= thresh
AtOrAboveThresh(st, idx) == st.pix[idx + 1] >= st.thresh

\* v32 > thresh
AboveThresh(st, idx) == st.pix[idx + 1] > st.thresh

\* the body of the for_each for pixel idx
VisitPixel(st, bld, idx) ==
    IF ~AboveThresh(st, idx) THEN st
    \* idx / cols and idx % cols with no column: division by zero
    ELSE IF st.cols = 0 THEN Panicked(st)
    ELSE
    LET s0 == StartSegment(st, idx)
        s1 == IF (idx % st.cols) + 1 < st.cols
              THEN Link(s0, idx, Right(idx, st.cols))
              ELSE s0
    IN  IF s1.pc = "panic" THEN s1
        ELSE IF st.rows = 0 /\ bld = "debug" THEN Panicked(s1)
        ELSE IF (idx \div st.cols) < LastRow(st.rows) THEN LinkBelow(s1, idx)
        ELSE s1

\* x.indices.len() > options.minsize
RetainedAbove(indices, minsize) == Len(indices) > minsize

\* x.indices.len() >= options.minsize
Retained(indices, minsize) == Len(indices) >= minsize

\* segments.retain(..)
Retain(segments, minsize) ==
    SelectSeq(segments, LAMBDA indices : Retained(indices, minsize))

RECURSIVE SeqSum(_)
SeqSum(xs) == IF xs = <<>> THEN 0 ELSE Head(xs) + SeqSum(Tail(xs))

\* the centroid and the mass of a segment.  With len members, srow and scol
\* the sums of their rows and columns, crow = srow/len and ccol = scol/len:
\* sumx = sum of val*(col - ccol), sumy = sum of val*(crow - crow) = 0,
\* summass = sum of val; centroid = (sumx/summass + ccol,
\* sumy/summass + crow).  sumx_len and sumy_len are len*sumx and len*sumy.
\* 0.0/0.0 for a segment of no mass.
Measured(pix, cols, indices) ==
    LET len == Len(indices)
        Val(rc) == pix[rc[1] * cols + rc[2] + 1]
        srow == SeqSum([i \in 1..len |-> indices[i][1]])
        scol == SeqSum([i \in 1..len |-> indices[i][2]])
        sumx_len == SeqSum([i \in 1..len |->
                               Val(indices[i]) * (indices[i][2] * len - scol)])
        sumy_len == SeqSum([i \in 1..len |-> Val(indices[i]) * (srow - srow)])
        summass == SeqSum([i \in 1..len |-> Val(indices[i])])
    IN  [indices |-> indices,
         centroid |-> IF summass = 0 THEN <<NaN, NaN>>
                      ELSE <<Ratio(sumx_len + scol * summass, len * summass),
                             Ratio(sumy_len + srow * summass, len * summass)>>,
         mass |-> summass]

\* the segments left as they are
Unsorted(segs) == segs

RECURSIVE InsertByMass(_, _)
\* seg behind the segments of no greater mass
InsertByMass(sorted, seg) ==
    IF sorted = <<>> THEN <<seg>>
    ELSE IF seg.mass < Head(sorted).mass THEN <<seg>> \o sorted
    ELSE <<Head(sorted)>> \o InsertByMass(Tail(sorted), seg)

RECURSIVE SortedPrefix(_, _)
SortedPrefix(segs, n) ==
    IF n = 0 THEN <<>> ELSE InsertByMass(SortedPrefix(segs, n - 1), segs[n])

\* segments.sort_by(|a, b| a.mass.partial_cmp(&b.mass).unwrap()): ascending
\* in mass, segments of equal mass in their former order
SortByMass(segs) == SortedPrefix(segs, Len(segs))

\* the part of find_stars after the pass
Finished(st) ==
    LET kept == Retain(st.segments, st.minsize)
        measured == [i \in 1..Len(kept) |-> Measured(st.pix, st.cols, kept[i])]
    IN  [st EXCEPT !.pc = "done", !.result = SortByMass(measured)]

\* the call, before it is entered
Call(pix, rows, cols, options) ==
    [pc |-> "call", pix |-> pix, rows |-> rows, cols |-> cols, options |-> options,
     threshold |-> OptionsOf(options).threshold,
     minsize |-> OptionsOf(options).minsize,
     thresh |-> 0, idx |-> 0, mask |-> <<>>, segments |-> <<>>,
     segment_count |-> 0, result |-> <<>>]

\* find_stars up to the pass: thresh, mask = vec![-1; pix.len()], no segment
Entered(st) ==
    [st EXCEPT !.pc = "pass",
               !.thresh = ThreshOf(st.pix, st.threshold),
               !.mask = [k \in 1..Len(st.pix) |-> -1]]


(***************************************************************************)
(* Inputs of find_stars: frames in row-major order of up to MaxPix pixels  *)
(* with values of StarVals, 5x5 frames of zeros with one pixel set, and    *)
(* slices that do not hold rows*cols pixels.                               *)
(***************************************************************************)
MaxPix == 6
StarVals == {0, 1, 3}

StarOptions ==
    {None,
     Some([n |-> -2, d |-> 1], 0),
     Some([n |-> 0, d |-> 1], 1),
     Some([n |-> 0, d |-> 1], 3)}

\* the frames of up to maxpix pixels
SmallCalls(maxpix) ==
    UNION {{Call(pix, dims[1], dims[2], options) :
              pix \in [1..(dims[1] * dims[2]) -> StarVals], options \in StarOptions} :
           dims \in {d \in (1..maxpix) \X (1..maxpix) : d[1] * d[2] <= maxpix}}

\* a frame of zeros but for pixel at, which is v
OnePixel(n, at, v) == [k \in 1..n |-> IF k = at + 1 THEN v ELSE 0]

SinglePixelCalls ==
    {Call(OnePixel(25, at, v), 5, 5, options) :
        at \in 0..24, v \in {1, 3},
        options \in {None, Some([n |-> 5, d |-> 2], 1)}}

MismatchedCalls ==
    {Call(pix, dims[1], dims[2], Some([n |-> 0, d |-> 1], 1)) :
        pix \in {<<>>, <<3, 0, 3>>, <<0, 3, 3>>},
        dims \in {<<0, 0>>, <<0, 2>>, <<2, 0>>, <<2, 2>>, <<1, 2>>}}

StarCalls(maxpix) == SmallCalls(maxpix) \cup SinglePixelCalls \cup MismatchedCalls

\* the builds to tell apart for a call: the overflow checks bear on
\* find_stars in `rows - 1` only, where rows is 0
BuildsOf(call) == IF call.rows = 0 THEN Builds ELSE {"release"}

InitStar ==
    /\ frame = NoFrame
    /\ fres = NoRes
    /\ nwrites = 0
    /\ file = NoFile
    /\ ser = NoSer
    /\ stats = NoStats
    /\ star \in StarCalls(MaxPix)
    /\ build \in BuildsOf(star)
    /\ kd = NoKd

Enter ==
    /\ star.pc = "call"
    /\ star' = Entered(star)
    /\ UNCHANGED <<build, frameVars, serVars, stats, kd>>

Visit ==
    /\ star.pc = "pass"
    /\ star.idx < Len(star.pix)
    /\ star' = [VisitPixel(star, build, star.idx) EXCEPT !.idx = @ + 1]
    /\ UNCHANGED <<build, frameVars, serVars, stats, kd>>

Return ==
    /\ star.pc = "pass"
    /\ star.idx = Len(star.pix)
    /\ star' = Finished(star)
    /\ UNCHANGED <<build, frameVars, serVars, stats, kd>>

NextStar == Enter \/ Visit \/ Return

SpecStar == InitStar /\ [][NextStar]_vars


(***************************************************************************)
(* kdtree.rs: KdTree<[f64; D]>.  A point is a tuple of D coordinates, here *)
(* integers; an Option<Box<Node>> is the sequence of no node (None) or of  *)
(* one node (Some); a node is its data and its left and right options.     *)
(* Indices into data count from 1 here and from 0 in the source; a         *)
(* dimension dim counts from 0 as in the source.  A range is the quotient  *)
(* n/d, d > 0.                                                             *)
(***************************************************************************)
\* const NDIM: usize = D
NDIM(p) == Len(p)

\* self[dim].partial_cmp(&other[dim]).unwrap()
compare_on_dim(a, b, dim) ==
    IF a[dim + 1] < b[dim + 1] THEN "Less"
    ELSE IF a[dim + 1] = b[dim + 1] THEN "Equal"
    ELSE "Greater"

\* the square root of the sum of (a - b).powi(2) over the coordinates
distance(a, b) ==
    FSqrt(Ratio(SeqSum([i \in 1..Len(a) |-> (a[i] - b[i]) * (a[i] - b[i])]), 1))

\* (self[dim] - other[dim]).abs()
distance_on_dim(a, b, dim) ==
    Ratio(IF a[dim + 1] >= b[dim + 1] THEN a[dim + 1] - b[dim + 1]
          ELSE b[dim + 1] - a[dim + 1], 1)

\* x <= range, for x a quotient or the square root of one
LeRange(x, range) ==
    IF x.kind = "sqrt"
    THEN range.n >= 0 /\ x.n * range.d * range.d <= range.n * range.n * x.d
    ELSE x.n * range.d <= range.n * x.d

RECURSIVE InsertIdx(_, _, _, _)
\* index a behind the indices whose point is not greater on dim
InsertIdx(sorted, a, data, dim) ==
    IF sorted = <<>> THEN <<a>>
    ELSE IF compare_on_dim(data[a], data[Head(sorted)], dim) = "Less"
    THEN <<a>> \o sorted
    ELSE <<Head(sorted)>> \o InsertIdx(Tail(sorted), a, data, dim)

RECURSIVE SortedIdxPrefix(_, _, _)
SortedIdxPrefix(data, dim, n) ==
    IF n = 0 THEN <<>>
    ELSE InsertIdx(SortedIdxPrefix(data, dim, n - 1), n, data, dim)

\* the indices of data in ascending order of the coordinate dim
\* (sort_by is stable: equal coordinates stay in the order of data)
compute_sortidx(data, dim) == SortedIdxPrefix(data, dim, Len(data))

RECURSIVE create_node(_, _, _)
\* the node of the median of data on depth % NDIM, the points before the
\* median to its left and the points after it to its right, one level down
create_node(data, depth, ndim) ==
    IF data = <<>> THEN <<>>
    ELSE
    LET dim == depth % ndim
        indices == compute_sortidx(data, dim)
        median_idx == Len(data) \div 2
        median == indices[median_idx + 1]
        left_data == [k \in 1..median_idx |-> data[indices[k]]]
        right_data == [k \in 1..(Len(data) - median_idx - 1) |->
                          data[indices[median_idx + 1 + k]]]
    IN  <<[data |-> data[median],
           left |-> IF median_idx > 0
                    THEN create_node(left_data, depth + 1, ndim)
                    ELSE <<>>,
           right |-> IF median_idx < Len(data) - 1
                     THEN create_node(right_data, depth + 1, ndim)
                     ELSE <<>>]>>

create_from_vector(data, ndim) == [root |-> create_node(data, 0, ndim)]

RECURSIVE points_in_range_recursive(_, _, _, _, _)
\* the data of the node is pushed if it is within range of point; a child
\* is searched if its own data is within range of point on the dimension
\* depth % NDIM
points_in_range_recursive(node, point, range, depth, result) ==
    LET dim == depth % NDIM(point)
        dist == distance(node.data, point)
        r0 == IF LeRange(dist, range) THEN Append(result, node.data) ELSE result
        r1 == IF node.left # <<>>
                  /\ LeRange(distance_on_dim(point, node.left[1].data, dim), range)
              THEN points_in_range_recursive(node.left[1], point, range,
                                             depth + 1, r0)
              ELSE r0
    IN  IF node.right # <<>>
           /\ LeRange(distance_on_dim(point, node.right[1].data, dim), range)
        THEN points_in_range_recursive(node.right[1], point, range, depth + 1, r1)
        ELSE r1

points_in_range(tree, point, range) ==
    IF tree.root # <<>>
    THEN points_in_range_recursive(tree.root[1], point, range, 0, <<>>)
    ELSE <<>>

(***************************************************************************)
(* Inputs of the tree: up to MaxPoints points of one or two coordinates in *)
(* 0..MaxCoord, in every order and with repetitions, and the six points of *)
(* test_kdtree; the queries are the points of the same grid with a range   *)
(* that is negative, zero, 1 or 3/2, and the query of test_kdtree.         *)
(***************************************************************************)
MaxPoints == 4
MaxCoord == 2

KdPoints(ndim, maxc) == [1..ndim -> 0..maxc]

KdRanges == {[n |-> -1, d |-> 1], [n |-> 0, d |-> 1], [n |-> 1, d |-> 1],
             [n |-> 3, d |-> 2]}

\* test_kdtree: the data, the point [9.0, 2.0] and the range 4.1
TestData == <<<<2, 3>>, <<5, 4>>, <<9, 6>>, <<4, 7>>, <<8, 1>>, <<7, 2>>>>
TestPoint == <<9, 2>>
TestRange == [n |-> 41, d |-> 10]

\* the tree under test before it is built
KdOf(data, ndim) ==
    [pc |-> "data", ndim |-> ndim, data |-> data, tree |-> [root |-> <<>>],
     point |-> <<>>, range |-> [n |-> 0, d |-> 1], result |-> <<>>]

KdInputs(maxn, maxc) ==
    UNION {{KdOf(data, ndim) :
              data \in UNION {[1..n -> KdPoints(ndim, maxc)] : n \in 0..maxn}} :
           ndim \in {1, 2}}
    \cup {KdOf(TestData, 2)}

\* the queries put to the tree of k
KdQueries(k, maxc) ==
    IF k.data = TestData THEN {<<TestPoint, TestRange>>}
    ELSE KdPoints(k.ndim, maxc) \X KdRanges

InitKd ==
    /\ build = "release"
    /\ frame = NoFrame
    /\ fres = NoRes
    /\ nwrites = 0
    /\ file = NoFile
    /\ ser = NoSer
    /\ stats = NoStats
    /\ star = NoStar
    /\ kd \in KdInputs(MaxPoints, MaxCoord)

Create ==
    /\ kd.pc = "data"
    /\ kd' = [kd EXCEPT !.pc = "tree",
                        !.tree = create_from_vector(kd.data, kd.ndim)]
    /\ UNCHANGED <<build, frameVars, serVars, stats, star>>

Query(point, range) ==
    /\ kd.pc = "tree"
    /\ kd' = [kd EXCEPT !.pc = "queried",
                        !.point = point,
                        !.range = range,
                        !.result = points_in_range(kd.tree, point, range)]
    /\ UNCHANGED <<build, frameVars, serVars, stats, star>>

NextKd ==
    \/ Create
    \/ \E q \in KdQueries(kd, MaxCoord) : Query(q[1], q[2])

SpecKd == InitKd /\ [][NextKd]_vars


(***************************************************************************)
(* Properties of the frame buffer.                                         *)
(***************************************************************************)
\* the frame holds rows*cols samples
HoldsRowsTimesCols(f) == Len(f.rawdata) = f.rows * f.cols

\* the offset stated for (r, c): c*rows + r under ColMajor, r*cols + c under
\* RowMajor
StatedOffset(f, r, c) ==
    IF f.pixel_order = "ColMajor" THEN c * f.rows + r ELSE r * f.cols + c

InRange(f, r, c) == r < f.rows /\ c < f.cols

\* C1: every frame buffer, however obtained (zeros, new with any data slice)
\* and after any indexed writes, holds exactly rows*cols samples.
C1_SamplesLenIsRowsTimesCols ==
    frame # NoFrame => HoldsRowsTimesCols(frame)

\* C2: on a buffer holding rows*cols samples, at(i) returns the i-th sample
\* for every i < rows*cols and an IndexOutOfBounds error for every
\* i >= rows*cols.
C2_AtFlatBounds ==
    (fres.op = "at1" /\ HoldsRowsTimesCols(frame)) =>
        IF fres.a < frame.rows * frame.cols
        THEN fres.kind = "ok" /\ fres.off = fres.a
             /\ fres.val = frame.rawdata[fres.a + 1]
        ELSE fres.kind = "err"

\* C3: for every in-range (r, c), the checked read at((r, c)) and the raw
\* operator frame[(r, c)] (read or written) resolve to the same linear
\* offset, c*rows + r under ColMajor and r*cols + c under RowMajor.
C3_OffsetsAgree ==
    (fres.op \in {"at2", "index2", "set2"} /\ InRange(frame, fres.a, fres.b)) =>
        /\ fres.off = StatedOffset(frame, fres.a, fres.b)
        /\ fres.op = "at2" =>
              /\ fres.off = IndexRC(frame, build, fres.a, fres.b).off
              /\ fres.off = IndexMutRC(frame, build, fres.a, fres.b).off
        /\ fres.op \in {"index2", "set2"} =>
              fres.off = AtRC(frame, build, fres.a, fres.b).off

\* C3's case: on a 2 x 2 RowMajor frame, at((0, 1)) has read offset 1, where
\* the ColMajor formula gives 2.
C3_Witness ==
    /\ fres.op = "at2" /\ fres.kind = "ok"
    /\ frame.pixel_order = "RowMajor" /\ frame.rows = 2 /\ frame.cols = 2
    /\ fres.a = 0 /\ fres.b = 1 /\ fres.off = 1

\* C4: on a buffer holding rows*cols samples, at((r, c)) returns an
\* IndexOutOfBounds error if and only if r >= rows or c >= cols, and a
\* sample for every other (r, c).
C4_AtRCRejectsExactlyOutOfRange ==
    (fres.op = "at2" /\ HoldsRowsTimesCols(frame)) =>
        IF InRange(frame, fres.a, fres.b)
        THEN fres.kind = "ok"
             /\ fres.val = frame.rawdata[StatedOffset(frame, fres.a, fres.b) + 1]
        ELSE fres.kind = "err"

\* Where the index computation of at((r, c)) does not overflow a usize, the
\* checked read rejects exactly the out-of-range coordinates, also those
\* whose offset falls inside the buffer.
AtRCWithoutOverflow ==
    (fres.op = "at2" /\ HoldsRowsTimesCols(frame)
        /\ ~LinearIndexOverflows(frame, fres.a, fres.b)) =>
        IF InRange(frame, fres.a, fres.b)
        THEN fres.kind = "ok"
             /\ fres.val = frame.rawdata[StatedOffset(frame, fres.a, fres.b) + 1]
        ELSE fres.kind = "err"

\* an out-of-range coordinate whose offset falls inside the buffer was
\* rejected
AtRCInsideOffsetRejected ==
    /\ fres.op = "at2" /\ HoldsRowsTimesCols(frame) /\ fres.kind = "err"
    /\ ~InRange(frame, fres.a, fres.b)
    /\ fres.off < Len(frame.rawdata)

(***************************************************************************)
(* Properties of the SER reader.  What a claim says of a file is stated    *)
(* from the bytes of the file, read as the SER format lays them out.       *)
(***************************************************************************)
\* the 32-bit little-endian field at byte offset lo of the file
Field(lo) ==
    file.bytes[lo + 1] + 256 * (file.bytes[lo + 2]
        + 256 * (file.bytes[lo + 3] + 256 * file.bytes[lo + 4]))

HasHeader == file.kind = "file" /\ Len(file.bytes) >= 178
Magic == SubSeq(file.bytes, 1, 14)
DeclaredColor == Field(18)
DeclaredEndian == Field(22)
DeclaredWidth == Field(26)
DeclaredHeight == Field(30)
DeclaredBitDepth == Field(34)
DeclaredFrameCount == Field(38)

MappedColors == {0, 8, 9, 10, 11, 16, 17, 18, 19, 100, 101}

\* ceil(bit_depth / 8)
CeilBytes(bd) == IF bd % 8 = 0 THEN bd \div 8 ELSE bd \div 8 + 1

\* width * height * ceil(bit_depth/8) * (3 for RGB/BGR, else 1)
PerFrameBytes ==
    DeclaredWidth * DeclaredHeight * CeilBytes(DeclaredBitDepth)
        * (IF DeclaredColor \in {100, 101} THEN 3 ELSE 1)

\* 178 + frame_count*per_frame_bytes + frame_count*8
FullLength == 178 + DeclaredFrameCount * PerFrameBytes + DeclaredFrameCount * 8

\* the 64-bit little-endian tick of frame i (from 1): bytes [8(i-1), 8i) of
\* the table that follows the payload
TickOfFrame(i) ==
    LET at == 178 + DeclaredFrameCount * PerFrameBytes + 8 * (i - 1)
        b(k) == file.bytes[at + k]
    IN  b(1) + 256 * (b(2) + 256 * (b(3) + 256 * (b(4) + 256 * (b(5)
            + 256 * (b(6) + 256 * (b(7) + 256 * b(8)))))))

\* sample k (from 1) of frame i (from 1): the 16-bit value of the two
\* payload bytes at 2(k-1) of [(i-1)*per_frame_bytes, i*per_frame_bytes)
PayloadSample(i, k) ==
    LET at == 178 + (i - 1) * PerFrameBytes + 2 * (k - 1)
    IN  file.bytes[at + 1] + 256 * file.bytes[at + 2]

Frames == ser.container.frames

\* C5: a file of at least 178 bytes whose first 14 bytes differ from
\* "LUCAM-RECORDER", whatever the bytes, fails with
\* SERFileError::InvalidHeader and yields no container.
C5_WrongMagicIsInvalidHeader ==
    (ser # NoSer /\ HasHeader /\ Magic # HEADER_STRING) =>
        /\ ser.kind = "err"
        /\ ser.err.tag = "InvalidHeader"
        /\ ser.container = NoContainer

\* A wrong magic that is well-formed text fails with InvalidHeader.
WrongTextMagicIsInvalidHeader ==
    (ser # NoSer /\ HasHeader /\ Magic # HEADER_STRING /\ Utf8Valid(Magic)) =>
        /\ ser.kind = "err"
        /\ ser.err.tag = "InvalidHeader"
        /\ ser.container = NoContainer

\* C6: a file with the magic, a mapped colour id, an endianness flag of 0
\* or 1 and complete payload and tick table, whatever its width, height,
\* bit depth and frame count (zero included), is read into a container of
\* exactly frame_count frames.
C6_CompleteFileYieldsFrameCountFrames ==
    (ser # NoSer /\ HasHeader /\ Magic = HEADER_STRING
        /\ DeclaredColor \in MappedColors /\ DeclaredEndian \in {0, 1}
        /\ Len(file.bytes) >= FullLength) =>
        /\ ser.kind = "ok"
        /\ Len(Frames) = DeclaredFrameCount

\* C7: a file shorter than 178 + frame_count*per_frame_bytes +
\* frame_count*8 bytes makes SERFile::new return an error, and no
\* container.
C7_TruncatedFileIsAnError ==
    (ser # NoSer /\ file.kind = "file"
        /\ (Len(file.bytes) < 178 \/ Len(file.bytes) < FullLength)) =>
        /\ ser.kind = "err"
        /\ ser.container = NoContainer

\* C8: the time of every frame is its tick times 100 nanoseconds after the
\* epoch.
C8_TimestampIsTickTimes100ns ==
    ser.kind = "ok" =>
        \A i \in 1..Len(Frames) : Frames[i].frame.time = TickOfFrame(i) * 100

\* C9: the time of frame i is the epoch plus floor(v/10) microseconds plus
\* (v mod 100)*10 nanoseconds, v the little-endian value of bytes
\* [8i, 8i+8) of the tick table.
C9_TimestampFormulaAndOrder ==
    ser.kind = "ok" =>
        \A i \in 1..Len(Frames) :
            LET v == TickOfFrame(i)
            IN  Frames[i].frame.time = (v \div 10) * 1000 + (v % 100) * 10

\* two frames with different ticks were read, each with the time of its own
\* tick
C9_Witness ==
    /\ ser.kind = "ok"
    /\ Len(Frames) = 2
    /\ TickOfFrame(1) = 101 /\ TickOfFrame(2) = 9
    /\ Frames[1].frame.time = 10010
    /\ Frames[2].frame.time = 90

\* C10: every frame of the container is CameraFrame::Mono16, ColMajor, of
\* pixel format MONO, whatever the colour id and bit depth; frame i holds
\* the 16-bit samples of payload bytes
\* [i*per_frame_bytes, (i+1)*per_frame_bytes).
C10_FramesAreMono16OfPayload ==
    ser.kind = "ok" =>
        \A i \in 1..Len(Frames) :
            /\ Frames[i].variant = "Mono16"
            /\ CameraFrame_pixel_order(Frames[i]) = "ColMajor"
            /\ CameraFrame_pixel_format(Frames[i]) = "MONO"
            /\ Frames[i].frame.rawdata =
                   [k \in 1..(PerFrameBytes \div 2) |-> PayloadSample(i, k)]

\* two frames of an 8-bit RGB file, 6 bytes each, were read as 3 samples
\* each
C10_Witness ==
    /\ ser.kind = "ok"
    /\ ser.container.color_id = "RGB"
    /\ ser.container.bit_depth = 8
    /\ Len(Frames) = 2
    /\ PerFrameBytes = 6
    /\ Len(Frames[2].frame.rawdata) = 3
    /\ Frames[2].frame.rawdata[1] = PayloadSample(2, 1)
    /\ Frames[2].frame.rawdata[1] # Frames[1].frame.rawdata[1]

\* A frame read from a file holds rows*cols samples only where a sample of
\* the file takes two bytes on one layer.
SerFramesHoldRowsTimesCols ==
    ser.kind = "ok" => \A i \in 1..Len(Frames) : HoldsRowsTimesCols(Frames[i].frame)

\* the file that differs from the file read in its endianness flag only:
\* 0 for 1, 1 for 0
EndianTwin == [file EXCEPT !.bytes[23] = 1 - @]

\* C11: two files that differ in the endianness flag (0 or 1) only are read
\* to the same outcome and, where they are read into containers, to the
\* same frames (samples, dimensions, order, times) and the same metadata
\* but for the endian field.
C11_EndianFlagDoesNotAffectFrames ==
    (ser # NoSer /\ HasHeader /\ DeclaredEndian \in {0, 1}) =>
        \A ub \in UBOutcomes :
            ser = SERFile_new(file, build, ub) =>
                LET twin == SERFile_new(EndianTwin, build, ub)
                IN  /\ twin.kind = ser.kind
                    /\ twin.err = ser.err
                    /\ ser.kind = "ok" =>
                        /\ twin.container.frames = Frames
                        /\ twin.container =
                               [ser.container EXCEPT !.endian = twin.container.endian]
                        /\ twin.container.endian # ser.container.endian

\* a file flagged big-endian was read into two frames whose first sample
\* has different low and high bytes
C11_Witness ==
    /\ ser.kind = "ok"
    /\ HasHeader /\ DeclaredEndian = 1
    /\ ser.container.endian = "Big"
    /\ Len(Frames) = 2
    /\ Len(Frames[1].frame.rawdata) >= 1
    /\ Frames[1].frame.rawdata[1] = file.bytes[179] + 256 * file.bytes[180]
    /\ file.bytes[179] # file.bytes[180]
    /\ SERFile_new(EndianTwin, build, "reads").container.endian = "Little"

(***************************************************************************)
(* Properties of the frame statistics.                                    *)
(***************************************************************************)
Samples == frame.rawdata

RECURSIVE Total(_)
Total(s) == IF s = <<>> THEN 0 ELSE Head(s) + Total(Tail(s))

CountBelow(v) == Cardinality({i \in DOMAIN Samples : Samples[i] < v})
CountUpTo(v) == Cardinality({i \in DOMAIN Samples : Samples[i] <= v})

\* C12: of a non-empty sample sequence FrameStats::new returns the smallest
\* sample as min, the largest as max, sum/count as mean and, as median, the
\* element at index floor(count/2) of the ascending sort (at most
\* floor(count/2) samples are smaller, more than floor(count/2) are not
\* larger); of [1,2,3,4,5]: min 1, max 5, mean 3, median 3, variance 2.5.
C12_FrameStatsOfSamples ==
    (stats # NoStats /\ Samples # <<>>) =>
        /\ stats.kind = "ok"
        /\ \E i \in DOMAIN Samples : Samples[i] = stats.min
        /\ \A i \in DOMAIN Samples : Samples[i] >= stats.min
        /\ \E i \in DOMAIN Samples : Samples[i] = stats.max
        /\ \A i \in DOMAIN Samples : Samples[i] <= stats.max
        /\ stats.mean.kind = "num"
        /\ stats.mean.n * Len(Samples) = Total(Samples) * stats.mean.d
        /\ CountBelow(stats.median) <= Len(Samples) \div 2
        /\ CountUpTo(stats.median) > Len(Samples) \div 2
        /\ Samples = <<1, 2, 3, 4, 5>> =>
            /\ stats.min = 1 /\ stats.max = 5 /\ stats.median = 3
            /\ stats.mean.n = 3 * stats.mean.d
            /\ stats.std_dev.kind = "sqrt"
            /\ 2 * stats.std_dev.n = 5 * stats.std_dev.d

\* the statistics of [1,2,3,4,5] were computed
C12_Witness ==
    /\ Samples = <<1, 2, 3, 4, 5>>
    /\ stats.kind = "ok"
    /\ stats.median = 3

\* the statistics of an even number of samples were computed: the median is
\* the upper of the two middle samples
UpperMedianTaken ==
    /\ Samples = <<4, 1, 3, 2>>
    /\ stats.kind = "ok"
    /\ stats.median = 3

(***************************************************************************)
(* Properties of find_stars.  A pixel is named by its offset n in pix, its *)
(* coordinate being (n / cols, n % cols).                                  *)
(***************************************************************************)
Pixels == 0..(Len(star.pix) - 1)
PixelValue(n) == star.pix[n + 1]
Label(n) == star.mask[n + 1]
BrightPixels == {n \in Pixels : PixelValue(n) > star.thresh}
RowOf(n) == n \div star.cols
ColOf(n) == n % star.cols
CoordOf(n) == <<RowOf(n), ColOf(n)>>
OffsetOf(rc) == rc[1] * star.cols + rc[2]

\* pix holds the rows*cols pixels of a frame
IsFrame == Len(star.pix) = star.rows * star.cols

PassStarted == star.pc \in {"pass", "done"}
PassOver == star.pc \in {"pass", "done"} /\ star.idx = Len(star.pix)
Returned == star.pc = "done"

\* the raster segments of at least minsize members
LargeEnough == {j \in 1..Len(star.segments) : Len(star.segments[j]) >= star.minsize}

\* a 5x5 frame of zeros but for one pixel, with the default threshold
\* multiplier
SinglePixelFrame ==
    /\ star.rows = 5 /\ star.cols = 5 /\ Len(star.pix) = 25
    /\ Cardinality({n \in Pixels : PixelValue(n) # 0}) = 1
    /\ star.threshold = [n |-> 5, d |-> 2]

TheSinglePixel == CHOOSE n \in Pixels : PixelValue(n) # 0

\* C13: find_stars returns the segments of the raster pass that have at
\* least minsize members, and no others; of a 5x5 frame of zeros with one
\* non-zero pixel (default threshold multiplier) it returns the one segment
\* of that pixel when minsize = 1 and nothing when minsize = 2.
C13_ReturnsSegmentsOfMinsize ==
    Returned =>
        /\ \A i \in 1..Len(star.result) :
               \E j \in LargeEnough : star.segments[j] = star.result[i].indices
        /\ \A j \in LargeEnough :
               \E i \in 1..Len(star.result) : star.result[i].indices = star.segments[j]
        /\ Len(star.result) = Cardinality(LargeEnough)
        /\ SinglePixelFrame =>
            /\ star.minsize = 1 =>
                   /\ Len(star.result) = 1
                   /\ star.result[1].indices = <<CoordOf(TheSinglePixel)>>
            /\ star.minsize = 2 => star.result = <<>>

\* the one pixel of a 5x5 frame was returned as a segment, minsize being 1
C13_Witness ==
    /\ Returned /\ SinglePixelFrame
    /\ star.minsize = 1
    /\ PixelValue(12) = 3
    /\ Len(star.result) = 1
    /\ star.result[1].indices = <<<<2, 2>>>>

\* the one pixel of a 5x5 frame was dropped, the options being the defaults
SinglePixelDroppedByDefault ==
    /\ Returned /\ SinglePixelFrame
    /\ ~star.options.some
    /\ Len(star.segments) = 1
    /\ star.result = <<>>

\* q is right of, below left of, below or below right of p
ForwardNeighbour(p, q) ==
    \/ RowOf(q) = RowOf(p) /\ ColOf(q) = ColOf(p) + 1
    \/ RowOf(q) = RowOf(p) + 1 /\ ColOf(q) \in {ColOf(p) - 1, ColOf(p), ColOf(p) + 1}

\* C14: of a frame with exactly two pixels above the threshold, the second
\* a forward neighbour of the first, find_stars with minsize <= 2 returns
\* one segment, of the first pixel then the second.
C14_ForwardNeighboursAreOneSegment ==
    (Returned /\ IsFrame /\ star.minsize <= 2 /\ Cardinality(BrightPixels) = 2) =>
        \A p, q \in BrightPixels :
            (p < q /\ ForwardNeighbour(p, q)) =>
                /\ Len(star.result) = 1
                /\ star.result[1].indices = <<CoordOf(p), CoordOf(q)>>

\* bright pixels at (0,0) and (1,1) only were returned as one segment
C14_Witness ==
    /\ Returned /\ IsFrame
    /\ star.rows = 2 /\ star.cols = 2
    /\ BrightPixels = {0, 3}
    /\ Len(star.result) = 1
    /\ star.result[1].indices = <<<<0, 0>>, <<1, 1>>>>

\* C15: the sequence find_stars returns is non-decreasing in mass.
C15_ResultAscendingInMass ==
    Returned =>
        \A i, j \in 1..Len(star.result) :
            i < j => star.result[i].mass <= star.result[j].mass

\* two segments were returned in the reverse of the order the pass built
\* them in, the lighter first
C15_Witness ==
    /\ Returned
    /\ Len(star.result) = 2
    /\ star.result[1].mass < star.result[2].mass
    /\ star.result[1].indices = star.segments[2]
    /\ star.result[2].indices = star.segments[1]

\* C16: every segment find_stars returns has a member and a mass above 0,
\* whatever the frame, the threshold multiplier (zero and negative
\* included) and the minimum size (0 included).
C16_SegmentsHaveMembersAndMass ==
    (Returned /\ IsFrame) =>
        \A i \in 1..Len(star.result) :
            /\ Len(star.result[i].indices) >= 1
            /\ star.result[i].mass > 0

\* with a negative multiplier, a negative threshold and minsize 0 a segment
\* with a pixel of value 0 was returned
C16_Witness ==
    /\ Returned /\ IsFrame
    /\ star.threshold.n < 0 /\ star.thresh < 0 /\ star.minsize = 0
    /\ Len(star.result) = 1
    /\ \E m \in 1..Len(star.result[1].indices) :
           PixelValue(OffsetOf(star.result[1].indices[m])) = 0
    /\ star.result[1].mass > 0

\* with a multiplier of zero and a threshold of 0 a segment was returned
\* and pixels of value 0 were left out
ZeroThresholdLeavesZeros ==
    /\ Returned /\ IsFrame
    /\ star.threshold.n = 0 /\ star.thresh = 0
    /\ Len(star.result) >= 1
    /\ \E n \in Pixels : PixelValue(n) = 0 /\ Label(n) = -1

\* the pixels above the threshold are (0,0), (0,2) and (1,1)
SplitExample ==
    /\ IsFrame /\ star.rows >= 2 /\ star.cols >= 3
    /\ BrightPixels = {0, 2, star.cols + 1}

\* C17: the pass does not label 8-connected regions: with (0,0), (0,2) and
\* (1,1) above the threshold and (0,1) below, (1,1) is 8-adjacent to (0,2)
\* and the two end up in different segments.
C17_AdjacentPixelsInDifferentSegments ==
    (PassOver /\ SplitExample) =>
        /\ Len(star.segments) = 2
        /\ Label(star.cols + 1) = Label(0)
        /\ Label(2) # Label(star.cols + 1)
        /\ star.segments[Label(0) + 1] = <<<<0, 0>>, <<1, 1>>>>
        /\ star.segments[Label(2) + 1] = <<<<0, 2>>>>

\* the pass over such a frame of 2 rows and 3 columns is over
C17_Witness ==
    /\ PassOver /\ SplitExample
    /\ star.rows = 2 /\ star.cols = 3
    /\ Label(2) = 1 /\ Label(4) = 0

RECURSIVE MemberSum(_, _)
\* the sum of f over the members of a segment
MemberSum(indices, f) ==
    IF indices = <<>> THEN 0
    ELSE f[Head(indices)] + MemberSum(Tail(indices), f)

Coords == {CoordOf(n) : n \in Pixels}
ValueAt == [rc \in Coords |-> PixelValue(OffsetOf(rc))]
ValueTimesCol == [rc \in Coords |-> PixelValue(OffsetOf(rc)) * rc[2]]
ValueTimesRow == [rc \in Coords |-> PixelValue(OffsetOf(rc)) * rc[1]]

\* C18: the mass of every returned segment is the sum of the values of its
\* members, and its centroid is their brightness-weighted mean position:
\* centroid.x * mass = sum(value*col), centroid.y * mass = sum(value*row).
C18_CentroidIsWeightedMean ==
    (Returned /\ IsFrame) =>
        \A i \in 1..Len(star.result) :
            LET seg == star.result[i]
            IN  /\ seg.mass = MemberSum(seg.indices, ValueAt)
                /\ seg.centroid[1].kind = "num"
                /\ seg.centroid[1].n * seg.mass
                       = MemberSum(seg.indices, ValueTimesCol) * seg.centroid[1].d
                /\ seg.centroid[2].kind = "num"
                /\ seg.centroid[2].n * seg.mass
                       = MemberSum(seg.indices, ValueTimesRow) * seg.centroid[2].d

RowIndex == [rc \in Coords |-> rc[1]]

\* The mass is the sum of the values, centroid.x the weighted mean column,
\* and centroid.y the plain mean of the members' rows.
CentroidXWeightedYPlain ==
    (Returned /\ IsFrame) =>
        \A i \in 1..Len(star.result) :
            LET seg == star.result[i]
            IN  /\ seg.mass = MemberSum(seg.indices, ValueAt)
                /\ seg.centroid[1].n * seg.mass
                       = MemberSum(seg.indices, ValueTimesCol) * seg.centroid[1].d
                /\ seg.centroid[2].n * Len(seg.indices)
                       = MemberSum(seg.indices, RowIndex) * seg.centroid[2].d

\* the places of the segments' members: <<segment, position in it>>
Members ==
    {km \in (1..Len(star.segments)) \X (1..Len(star.pix)) :
        km[2] <= Len(star.segments[km[1]])}
MemberAt(km) == star.segments[km[1]][km[2]]

\* C19: during and after the pass every labelled pixel is listed by the one
\* segment its label names, every listed coordinate is a pixel above the
\* threshold labelled with the segment that lists it, no coordinate is
\* listed twice; after the pass every pixel above the threshold is listed.
C19_SegmentsPartitionBrightPixels ==
    (PassStarted /\ IsFrame) =>
        /\ \A n \in Pixels :
               Label(n) # -1 =>
                   /\ Label(n) \in 0..(Len(star.segments) - 1)
                   /\ \E m \in 1..Len(star.segments[Label(n) + 1]) :
                          star.segments[Label(n) + 1][m] = CoordOf(n)
        /\ \A km \in Members :
               /\ MemberAt(km)[2] < star.cols
               /\ OffsetOf(MemberAt(km)) \in BrightPixels
               /\ Label(OffsetOf(MemberAt(km))) = km[1] - 1
        /\ \A km1, km2 \in Members : MemberAt(km1) = MemberAt(km2) => km1 = km2
        /\ PassOver => \A n \in BrightPixels : Label(n) # -1

\* the pass is over with two segments, one of several members, and pixels
\* left out
C19_Witness ==
    /\ PassOver /\ IsFrame
    /\ Len(star.segments) = 2
    /\ Len(star.segments[1]) >= 2
    /\ \E n \in Pixels : Label(n) = -1
    /\ \E n \in Pixels : Label(n) = 1

\* the pass is under way with a labelled pixel still to be visited
LabelledAhead ==
    /\ star.pc = "pass" /\ IsFrame
    /\ star.idx < Len(star.pix)
    /\ \E n \in Pixels : n >= star.idx /\ Label(n) # -1

(***************************************************************************)
(* The order of the checks of SERFile::new.                                *)
(***************************************************************************)
PayloadLength == DeclaredFrameCount * PerFrameBytes

IsErr(tag, v) == ser.kind = "err" /\ ser.err = [tag |-> tag, v |-> v]

\* a missing file gives FileDoesNotExist with nothing read
MissingFileFirst ==
    file.kind = "absent" => IsErr("FileDoesNotExist", 0) /\ ser.read = 0

\* an unmapped colour id v gives InvalidColorID(v), whatever the flag
ColorBeforeEndian ==
    (HasHeader /\ Magic = HEADER_STRING /\ DeclaredColor \notin MappedColors) =>
        IsErr("InvalidColorID", DeclaredColor) /\ ser.read = 178

\* a flag v outside {0,1} gives InvalidEndian(v) with the header read only
EndianBeforePayload ==
    (HasHeader /\ Magic = HEADER_STRING /\ DeclaredColor \in MappedColors
        /\ DeclaredEndian \notin {0, 1}) =>
        IsErr("InvalidEndian", DeclaredEndian) /\ ser.read = 178

\* C20: SERFile::new reports the first violation in step order: a missing
\* file gives FileDoesNotExist with nothing read; a wrong magic gives
\* InvalidHeader whatever the colour id and the flag; an unmapped colour id
\* v gives InvalidColorID(v) whatever the flag; a flag v outside {0,1}
\* gives InvalidEndian(v) before the payload is read; a short payload is
\* reported, as an error, whatever the tick table.
C20_FirstViolationInStepOrder ==
    ser # NoSer =>
        /\ MissingFileFirst
        /\ (HasHeader /\ Magic # HEADER_STRING) => IsErr("InvalidHeader", 0)
        /\ ColorBeforeEndian
        /\ EndianBeforePayload
        /\ (HasHeader /\ Magic = HEADER_STRING /\ DeclaredColor \in MappedColors
               /\ DeclaredEndian \in {0, 1}
               /\ Len(file.bytes) < 178 + PayloadLength) => ser.kind = "err"

TextFieldsValid ==
    /\ Utf8Valid(SubSeq(file.bytes, 43, 82))
    /\ Utf8Valid(SubSeq(file.bytes, 83, 122))
    /\ Utf8Valid(SubSeq(file.bytes, 123, 152))

\* The order holds for a wrong magic that is well-formed text and for a
\* short payload of a size that a usize holds and a Vec can have.
StepOrderOfTextMagicAndSmallPayload ==
    ser # NoSer =>
        /\ MissingFileFirst
        /\ (HasHeader /\ Magic # HEADER_STRING /\ Utf8Valid(Magic)) =>
               IsErr("InvalidHeader", 0)
        /\ ColorBeforeEndian
        /\ EndianBeforePayload
        /\ (HasHeader /\ Magic = HEADER_STRING /\ DeclaredColor \in MappedColors
               /\ DeclaredEndian \in {0, 1} /\ TextFieldsValid
               /\ PerFrameBytes <= UsizeMax /\ PayloadLength <= IsizeMax
               /\ Len(file.bytes) < 178 + PayloadLength) =>
               IsErr("UnexpectedEof", 0)

\* a magic that is not well-formed text came with an unmapped colour id and
\* was reported as a Utf8Error
BadMagicWithBadColor ==
    /\ HasHeader /\ ~Utf8Valid(Magic) /\ DeclaredColor = 5
    /\ IsErr("Utf8Error", 0)

(***************************************************************************)
(* Properties of the frame statistics of at most one sample.               *)
(***************************************************************************)
\* C21: of a frame of count <= 1 samples (count = 0 and count = 1)
\* FrameStats::new returns a result whose standard deviation is NaN; it
\* does not abort on such a frame.
C21_StdDevOfAtMostOneSampleIsNaN ==
    (stats # NoStats /\ Len(Samples) <= 1) =>
        /\ stats.kind = "ok"
        /\ stats.std_dev = NaN

\* of one sample the result is returned and its standard deviation is NaN
OneSampleStdDevIsNaN ==
    (stats # NoStats /\ Len(Samples) = 1) =>
        /\ stats.kind = "ok"
        /\ stats.std_dev = NaN
        /\ stats.median = Samples[1]

\* of no sample nothing is returned: values[0] of no values panics
NoSamplePanics ==
    (stats # NoStats /\ Samples = <<>>) => stats.kind = "panic"

\* the statistics of no sample were asked for
EmptyFrameGiven == stats # NoStats /\ Samples = <<>>

(***************************************************************************)
(* Properties of the text fields of the SER header.                        *)
(***************************************************************************)
\* the 40 bytes of the text field at byte offset lo of the file
TextField(lo) == SubSeq(file.bytes, lo + 1, lo + 40)

EndsInPadding(b) ==
    \/ (b # <<>> /\ b[Len(b)] = 0)
    \/ \E w \in WhiteSpace : EndsWith(b, w)

RECURSIVE WithoutTrailingPadding(_)
\* b without the NULs and the white space it ends in
WithoutTrailingPadding(b) ==
    IF b # <<>> /\ b[Len(b)] = 0
    THEN WithoutTrailingPadding(SubSeq(b, 1, Len(b) - 1))
    ELSE IF \E w \in WhiteSpace : EndsWith(b, w)
    THEN LET w == CHOOSE w \in WhiteSpace : EndsWith(b, w)
         IN  WithoutTrailingPadding(SubSeq(b, 1, Len(b) - Len(w)))
    ELSE b

\* text is the field with its trailing padding and white space removed and
\* nothing else: it does not end in a NUL or in white space and it begins
\* as the field does
TrailingPaddingRemoved(text, field) ==
    /\ ~EndsInPadding(text)
    /\ StartsWith(field, text)
    /\ text = WithoutTrailingPadding(field)

\* C22: observer, instrument and telescope are each the content of the
\* 40-byte header field at offsets 42, 82 and 122 with only the trailing
\* padding (NUL) and white space removed: the string never ends in a NUL or
\* a white space character and the leading characters of the field are
\* preserved.
C22_TextFieldsWithoutTrailingPadding ==
    ser.kind = "ok" =>
        /\ TrailingPaddingRemoved(ser.container.observer, TextField(42))
        /\ TrailingPaddingRemoved(ser.container.instrument, TextField(82))
        /\ TrailingPaddingRemoved(ser.container.telescope, TextField(122))

\* a field of text that is padded with white space at its end only is
\* returned without the padding; of the telescope field only the first 30
\* bytes are read
PlainField(field) ==
    /\ \A k \in DOMAIN field : field[k] # 0
    /\ ~\E w \in WhiteSpace : StartsWith(field, w)

SpacePaddedFieldsTrimmed ==
    ser.kind = "ok" =>
        /\ PlainField(TextField(42)) =>
               TrailingPaddingRemoved(ser.container.observer, TextField(42))
        /\ PlainField(TextField(82)) =>
               TrailingPaddingRemoved(ser.container.instrument, TextField(82))
        /\ PlainField(TextField(122)) =>
               TrailingPaddingRemoved(ser.container.telescope,
                                      SubSeq(file.bytes, 123, 152))

\* a NUL-padded observer was returned with its NULs
NulPaddedObserverKept ==
    /\ ser.kind = "ok"
    /\ TextField(42) = <<65, 98>> \o Fill(38, 0)
    /\ ser.container.observer = TextField(42)

\* the white space before an instrument name was removed
LeadingWhiteSpaceRemoved ==
    /\ ser.kind = "ok"
    /\ TextField(82) = <<32, 9, 65, 32, 98, 194, 160>> \o Fill(33, 32)
    /\ ser.container.instrument = <<65, 32, 98>>

\* a telescope name of 39 characters was cut to 30
TelescopeCutToThirtyBytes ==
    /\ ser.kind = "ok"
    /\ TextField(122) = Fill(39, 65) \o <<32>>
    /\ ser.container.telescope = Fill(30, 65)

(***************************************************************************)
(* Properties of the member lists of the segments.                         *)
(***************************************************************************)
\* row*cols + col of a coordinate
RasterIndex(rc) == rc[1] * star.cols + rc[2]

\* two different coordinates whose rows and columns differ by at most one
Adjacent8(a, b) ==
    /\ a # b
    /\ a[1] - b[1] \in {-1, 0, 1}
    /\ a[2] - b[2] \in {-1, 0, 1}

InDiscoveryOrder(members) ==
    \A k \in 2..Len(members) :
        /\ RasterIndex(members[1]) < RasterIndex(members[k])
        /\ \E j \in 1..(k - 1) : Adjacent8(members[j], members[k])

\* C23: every segment built by the raster pass is 8-connected in discovery
\* order: its first member has the smallest raster index row*cols + col of
\* its members, and every later member is 8-adjacent to a member that is
\* earlier in the member list of the same segment.
C23_SegmentsConnectedInDiscoveryOrder ==
    /\ \A s \in DOMAIN star.segments : InDiscoveryOrder(star.segments[s])
    /\ \A s \in DOMAIN star.result : InDiscoveryOrder(star.result[s].indices)

\* a segment was returned with a member that is not adjacent to the first
\* member, and with a member of a smaller raster index than the member
\* before it
C23_Witness ==
    /\ Returned
    /\ \E s \in DOMAIN star.result :
         LET members == star.result[s].indices
         IN  /\ \E k \in 3..Len(members) : ~Adjacent8(members[1], members[k])
             /\ \E k \in 3..Len(members) :
                    RasterIndex(members[k]) < RasterIndex(members[k - 1])

(***************************************************************************)
(* Properties of the order of the frame times.                             *)
(***************************************************************************)
\* C24: the decoding of the time is strictly monotonic in the tick: of two
\* frames with ticks a < b the time decoded from a is strictly earlier than
\* the time decoded from b; different ticks never give the same time.
C24_TimeStrictlyMonotonicInTick ==
    ser.kind = "ok" =>
        \A i, j \in 1..Len(Frames) :
            /\ TickOfFrame(i) < TickOfFrame(j) =>
                   Frames[i].frame.time < Frames[j].frame.time
            /\ TickOfFrame(i) # TickOfFrame(j) =>
                   Frames[i].frame.time # Frames[j].frame.time

\* two frames were read whose ticks are 99 and 100, where the nanoseconds
\* (v mod 100)*10 fall from 990 to 0: the times are 9990 and 10000
C24_Witness ==
    /\ ser.kind = "ok"
    /\ Len(Frames) = 2
    /\ TickOfFrame(1) = 100 /\ TickOfFrame(2) = 99
    /\ Frames[1].frame.time = 10000
    /\ Frames[2].frame.time = 9990

(***************************************************************************)
(* Properties of the range query of the k-d tree.                          *)
(***************************************************************************)
\* the number of times p is in the sequence s
Occurrences(s, p) == Cardinality({i \in DOMAIN s : s[i] = p})

\* the squared distance of the stored point p to the query point is at
\* most the square of the range, which is not negative
InRangeOfQuery(p) ==
    /\ kd.range.n >= 0
    /\ SeqSum([i \in 1..Len(p) |-> (p[i] - kd.point[i]) * (p[i] - kd.point[i])])
           * kd.range.d * kd.range.d <= kd.range.n * kd.range.n

Queried == kd.pc = "queried"

StoredPoints == {kd.data[i] : i \in DOMAIN kd.data}

\* C25: for every point set given to create_from_vector and every query
\* (point, range), points_in_range returns exactly the stored points whose
\* distance to the query point is <= range, each once: no point farther
\* than range and every point within range.
C25_PointsInRangeExactly ==
    Queried =>
        /\ \A i \in DOMAIN kd.result : kd.result[i] \in StoredPoints
        /\ \A p \in StoredPoints :
              Occurrences(kd.result, p) =
                  (IF InRangeOfQuery(p) THEN Occurrences(kd.data, p) ELSE 0)

\* points_in_range returns stored points within range only, none more often
\* than it is stored
NoPointBeyondRange ==
    Queried =>
        /\ \A i \in DOMAIN kd.result :
              kd.result[i] \in StoredPoints /\ InRangeOfQuery(kd.result[i])
        /\ \A p \in StoredPoints :
              Occurrences(kd.result, p) <= Occurrences(kd.data, p)

\* the tree holds the given points: a query of a stored point with range 0
\* that finds it, and one that does not
RECURSIVE NodePoints(_)
NodePoints(opt) ==
    IF opt = <<>> THEN <<>>
    ELSE <<opt[1].data>> \o NodePoints(opt[1].left) \o NodePoints(opt[1].right)

TreeHoldsTheData ==
    kd.pc \in {"tree", "queried"} =>
        \A p \in StoredPoints :
            Occurrences(NodePoints(kd.tree.root), p) = Occurrences(kd.data, p)

\* the query of test_kdtree returns the three points within 4.1 of [9, 2]
TestQueryAnswered ==
    /\ Queried
    /\ kd.data = TestData
    /\ kd.result = <<<<7, 2>>, <<9, 6>>, <<8, 1>>>>

\* a stored point at the query point was not returned
StoredPointMissed ==
    /\ Queried
    /\ kd.data = <<<<0, 0>>, <<2, 1>>, <<2, 2>>, <<2, 0>>>>
    /\ kd.point = <<0, 0>>
    /\ kd.range = [n |-> 1, d |-> 1]
    /\ kd.result = <<>>

=============================================================================
